---- MODULE Spec2Model ----
(***************************************************************************)
(* Model of wkcuber's dataset registry (src/wkcuber/api/Dataset.py) and of *)
(* its tiff export (src/wkcuber/export_wkw_as_tiff.py).                    *)
(*                                                                         *)
(* The state is one dataset directory on disk (fs), the Dataset object the *)
(* caller holds for it (ds), the last call made with its arguments and     *)
(* outcome (last) and the state before that call (pre).  Every method of   *)
(* AbstractDataset is an operator from a world [fs, ds] to an outcome      *)
(* [result, w, ret]; a raised exception keeps whatever the method had      *)
(* already changed.                                                        *)
(*                                                                         *)
(* Properties (_add_layer, _delete_layer, _export_as_json, _from_json) and *)
(* Layer (constructor, setup_mag) are not part of src/; they are modelled  *)
(* from spec.md sections 3, 4.2 and 6.                                     *)
(*                                                                         *)
(* Four specifications share the module: Spec (a WKDataset and its         *)
(* layers), TiffSpec (creation of the tiff variants), ExportSpec (one      *)
(* export_tiff_stack call and its slice jobs, state in export) and         *)
(* DtypeSpec (the dtype conversion functions, state in conv).              *)
(***************************************************************************)
EXTENDS Integers, FiniteSets, Sequences, TLC

VARIABLES fs, ds, last, pre, export, conv

vars == <<fs, ds, last, pre, export, conv>>

-----------------------------------------------------------------------------
(* Bounds and input domains *)

MaxChannels == 2

DEFAULT_BIT_DEPTH == 8

Names == {"color", "seg"}
Categories == {"color", "segmentation"}
Scales == {1, 2}

\* num_channels=None
NoneNum == 0
NumChannelsArgs == {NoneNum} \cup (1..MaxChannels)

\* bit widths numpy accepts for an unsigned integer dtype
NumpyBits == {8, 16, 32, 64}

\* bit widths numpy accepts for a floating point dtype
FloatBits == {16, 32, 64}

\* a dtype string "uint<bits>" is the record [kind, bits]; None is NoneDtype
NoneDtype == [kind |-> "None", bits |-> 0]
TypeErrorDtype == [kind |-> "TypeError", bits |-> 0]
Uint(b) == [kind |-> "uint", bits |-> b]
Float64 == [kind |-> "float", bits |-> 64]

\* the (dtype_per_layer, dtype_per_channel) arguments callers pass: neither,
\* one of them, or both
DtypeArgs ==
  {<<NoneDtype, NoneDtype>>, <<Uint(8), NoneDtype>>, <<Uint(17), NoneDtype>>,
   <<NoneDtype, Uint(8)>>, <<NoneDtype, Uint(16)>>, <<Uint(8), Uint(8)>>}

\* the argument lists of add_layer and get_or_add_layer: every combination for
\* the layer "color"; the second layer is always requested with the default dtype
LayerArgs ==
  {a \in Names \X Categories \X DtypeArgs \X NumChannelsArgs :
     a[1] = "color" \/ a[3] = <<NoneDtype, NoneDtype>>}

-----------------------------------------------------------------------------
(* Helpers: single evaluation, maps with a finite key set *)

\* Bind(v, K) is K(v), with v computed once before K uses it
Bind(v, K(_)) == CHOOSE out \in {K(x) : x \in {v}} : TRUE

EmptyMap == [k \in {} |-> k]
Put(f, k, v) == [x \in (DOMAIN f) \cup {k} |-> IF x = k THEN v ELSE f[x]]
Del(f, k) == [x \in (DOMAIN f) \ {k} |-> f[x]]

-----------------------------------------------------------------------------
(* Dtype conversion, Dataset.py lines 30-65 *)

\* np.dtype(x): None gives the default float64, "uint<b>", "int<b>" and
\* "float<b>" are accepted for the widths numpy knows, anything else raises
\* TypeError
NpDtype(x) ==
  IF x = NoneDtype THEN Float64
  ELSE IF x.kind \in {"uint", "int"} /\ x.bits \in NumpyBits THEN x
  ELSE IF x.kind = "float" /\ x.bits \in FloatBits THEN x
  ELSE TypeErrorDtype

\* convert_dtypes that leaves the width alone on the way to the per-layer dtype
convert_dtypes_mut_no_multiplication(dtype, num_channels, per_layer_to_per_channel) ==
  IF dtype = NoneDtype THEN NoneDtype
  ELSE IF num_channels = NoneNum THEN TypeErrorDtype
  ELSE IF per_layer_to_per_channel
       THEN [kind |-> dtype.kind, bits |-> dtype.bits \div num_channels]
       ELSE dtype

\* int(op(int(part), num_channels)) on the numeric part of the string:
\* truediv followed by int() truncates, mul is exact.  op(int, None) raises
\* TypeError.
convert_dtypes(dtype, num_channels, per_layer_to_per_channel) ==
  IF dtype = NoneDtype THEN NoneDtype
  ELSE IF num_channels = NoneNum THEN TypeErrorDtype
  ELSE IF per_layer_to_per_channel
       THEN [kind |-> dtype.kind, bits |-> dtype.bits \div num_channels]
       ELSE [kind |-> dtype.kind, bits |-> dtype.bits * num_channels]

dtype_per_layer_to_dtype_per_channel(dtype_per_layer, num_channels) ==
  Bind(convert_dtypes(dtype_per_layer, num_channels, TRUE), LAMBDA c :
    IF c = TypeErrorDtype THEN TypeErrorDtype ELSE NpDtype(c))

dtype_per_channel_to_dtype_per_layer(dtype_per_channel, num_channels) ==
  convert_dtypes(NpDtype(dtype_per_channel), num_channels, FALSE)

-----------------------------------------------------------------------------
(* The manifest (datasource-properties.json) and the Properties store *)

\* a layer descriptor of Properties.data_layers
LayerProperties(name, category, element_class, data_format, num_channels, mags) ==
  [name |-> name, category |-> category, element_class |-> element_class,
   data_format |-> data_format, num_channels |-> num_channels,
   wkw_magnifications |-> mags]

\* pattern=None and tile_size=None; a pattern is the sequence of its characters
NonePattern == <<"None">>
NoneTile == <<>>

\* TiffProperties(path, name, scale, pattern=pattern, tile_size=tile_size)
TiffProperties(scale, pattern, tile_size) ==
  [scale |-> scale, data_layers |-> EmptyMap, pattern |-> pattern,
   tile_size |-> tile_size]

\* WKProperties(path, name, scale): no pattern, no tile size
EmptyProperties(scale) == TiffProperties(scale, NonePattern, NoneTile)

\* the JSON text: "dataLayers" is a list of entries that carry their name
ToJson(props) ==
  [scale |-> props.scale,
   pattern |-> props.pattern,
   tileSize |-> props.tile_size,
   dataLayers |-> {[name |-> n,
                    category |-> props.data_layers[n].category,
                    elementClass |-> props.data_layers[n].element_class,
                    dataFormat |-> props.data_layers[n].data_format,
                    numChannels |-> props.data_layers[n].num_channels,
                    wkwResolutions |-> props.data_layers[n].wkw_magnifications]
                   : n \in DOMAIN props.data_layers}]

\* Properties._from_json: data_layers is keyed by each entry's name
FromJson(json) ==
  [scale |-> json.scale,
   pattern |-> json.pattern,
   tile_size |-> json.tileSize,
   data_layers |->
     [n \in {e.name : e \in json.dataLayers} |->
        LET e == CHOOSE x \in json.dataLayers : x.name = n
        IN LayerProperties(e.name, e.category, e.elementClass, e.dataFormat,
                           e.numChannels, e.wkwResolutions)]]

ManifestNames(json) == {e.name : e \in json.dataLayers}

\* Properties._export_as_json: the whole manifest is rewritten
ExportAsJson(w) ==
  [w EXCEPT !.fs.hasManifest = TRUE, !.fs.manifest = ToJson(w.ds.props)]

\* the outcome of a call: the exception raised or "ok", the world it leaves and
\* the Layer it returns (NoRet when it returns no Layer)
NoRet == [name |-> "", layer |-> [dtype_per_channel |-> NoneDtype, num_channels |-> NoneNum, mags |-> {}]]
Raise(w, error) == [result |-> error, w |-> w, ret |-> NoRet]
Return(w, value) == [result |-> "ok", w |-> w, ret |-> value]

\* Properties._add_layer (spec 4.2): fails if the name is already present,
\* else records the descriptor and rewrites the manifest
Properties_add_layer(w, layer_name, category, element_class, data_format, num_channels) ==
  IF layer_name \in DOMAIN w.ds.props.data_layers
  THEN Raise(w, "DuplicateLayerError")
  ELSE Return(ExportAsJson(
         [w EXCEPT !.ds.props.data_layers =
            Put(@, layer_name,
                LayerProperties(layer_name, category, element_class,
                                data_format, num_channels, {}))]), NoRet)

\* Properties._delete_layer (spec 4.2): removes the descriptor and rewrites
\* the manifest
Properties_delete_layer(w, layer_name) ==
  ExportAsJson([w EXCEPT !.ds.props.data_layers = Del(@, layer_name)])

-----------------------------------------------------------------------------
(* Layer objects and the dataset directory *)

\* WKLayer(name, dataset, dtype_per_channel, num_channels): the object, with
\* no resolution registered yet
Layer(dtype_per_channel, num_channels) ==
  [dtype_per_channel |-> dtype_per_channel, num_channels |-> num_channels,
   mags |-> {}]

\* WKDataset._create_layer: the Layer object is stored under its name by the
\* caller; the layer's directory datasetPath/layerName exists afterwards
\* (an entry already there, directory or link to one, is kept)
create_layer_dir(w, layer_name) ==
  [w EXCEPT !.fs.entries[layer_name] = IF @ = "absent" THEN "dir" ELSE @]

\* Layer.setup_mag: registers a resolution handle
setup_mags(w, layer_name, mags) ==
  [w EXCEPT !.ds.layers[layer_name].mags = @ \cup mags]

\* os.listdir(dataset_path) is not empty
ListDirNonEmpty(f) ==
  f.hasManifest \/ f.junk \/ \E n \in Names : f.entries[n] # "absent"

-----------------------------------------------------------------------------
(* AbstractDataset, Dataset.py lines 68-286 *)

\* no Dataset object
ClosedDs ==
  [open |-> FALSE, layers |-> EmptyMap, props |-> EmptyProperties(1),
   data_format |-> "abstract"]

LayerRet(w, layer_name) == [name |-> layer_name, layer |-> w.ds.layers[layer_name]]

\* the dtype arguments of add_layer where a dtype_per_channel given together
\* with a dtype_per_layer wins instead of being refused
AddLayerDtypes_mut_both_allowed(dtype_per_layer, dtype_per_channel, num_channels) ==
  IF dtype_per_channel # NoneDtype
  THEN IF NpDtype(dtype_per_channel) = TypeErrorDtype
       THEN [result |-> "TypeError", per_layer |-> NoneDtype, per_channel |-> NoneDtype]
       ELSE [result |-> "ok",
             per_layer |-> dtype_per_channel_to_dtype_per_layer(
                              NpDtype(dtype_per_channel), num_channels),
             per_channel |-> NpDtype(dtype_per_channel)]
  ELSE IF dtype_per_layer # NoneDtype
  THEN Bind(IF NpDtype(dtype_per_layer) = TypeErrorDtype
            THEN dtype_per_layer ELSE NpDtype(dtype_per_layer), LAMBDA pl :
       Bind(dtype_per_layer_to_dtype_per_channel(pl, num_channels), LAMBDA pc :
         IF pc = TypeErrorDtype
         THEN [result |-> "TypeError", per_layer |-> NoneDtype, per_channel |-> NoneDtype]
         ELSE [result |-> "ok", per_layer |-> pl, per_channel |-> pc]))
  ELSE [result |-> "ok",
        per_layer |-> Uint(DEFAULT_BIT_DEPTH * num_channels),
        per_channel |-> NpDtype(Uint(DEFAULT_BIT_DEPTH))]

\* lines 137-165: the (dtype_per_layer, dtype_per_channel) pair add_layer
\* works with, or the exception it raises
AddLayerDtypes(dtype_per_layer, dtype_per_channel, num_channels) ==
  IF dtype_per_layer # NoneDtype /\ dtype_per_channel # NoneDtype
  THEN [result |-> "AttributeError", per_layer |-> NoneDtype, per_channel |-> NoneDtype]
  ELSE IF dtype_per_channel # NoneDtype
  THEN IF NpDtype(dtype_per_channel) = TypeErrorDtype
       THEN [result |-> "TypeError", per_layer |-> NoneDtype, per_channel |-> NoneDtype]
       ELSE [result |-> "ok",
             per_layer |-> dtype_per_channel_to_dtype_per_layer(
                              NpDtype(dtype_per_channel), num_channels),
             per_channel |-> NpDtype(dtype_per_channel)]
  ELSE IF dtype_per_layer # NoneDtype
  THEN Bind(IF NpDtype(dtype_per_layer) = TypeErrorDtype
            THEN dtype_per_layer ELSE NpDtype(dtype_per_layer), LAMBDA pl :
       Bind(dtype_per_layer_to_dtype_per_channel(pl, num_channels), LAMBDA pc :
         IF pc = TypeErrorDtype
         THEN [result |-> "TypeError", per_layer |-> NoneDtype, per_channel |-> NoneDtype]
         ELSE [result |-> "ok", per_layer |-> pl, per_channel |-> pc]))
  ELSE [result |-> "ok",
        per_layer |-> Uint(DEFAULT_BIT_DEPTH * num_channels),
        per_channel |-> NpDtype(Uint(DEFAULT_BIT_DEPTH))]

\* add_layer that updates the properties but does not store the Layer object
add_layer_mut_unregistered(w, layer_name, category, dtype_per_layer, dtype_per_channel, num_channels) ==
  Bind(IF num_channels = NoneNum THEN 1 ELSE num_channels, LAMBDA nc :
  Bind(AddLayerDtypes(dtype_per_layer, dtype_per_channel, nc), LAMBDA dt :
    IF dt.result # "ok" THEN Raise(w, dt.result)
    ELSE IF layer_name \in DOMAIN w.ds.layers THEN Raise(w, "IndexError")
    ELSE Properties_add_layer(w, layer_name, category, dt.per_layer,
                              w.ds.data_format, nc)))

\* add_layer without the check for an existing layer of that name
add_layer_mut_no_duplicate_check(w, layer_name, category, dtype_per_layer, dtype_per_channel, num_channels) ==
  Bind(IF num_channels = NoneNum THEN 1 ELSE num_channels, LAMBDA nc :
  Bind(AddLayerDtypes(dtype_per_layer, dtype_per_channel, nc), LAMBDA dt :
    IF dt.result # "ok" THEN Raise(w, dt.result)
    ELSE Bind(Properties_add_layer(w, layer_name, category, dt.per_layer,
                                   w.ds.data_format, nc), LAMBDA p :
           IF p.result # "ok" THEN p
           ELSE Bind(create_layer_dir(
                       [p.w EXCEPT !.ds.layers =
                          Put(@, layer_name, Layer(dt.per_channel, nc))],
                       layer_name), LAMBDA w1 :
                  Return(w1, LayerRet(w1, layer_name))))))

add_layer(w, layer_name, category, dtype_per_layer, dtype_per_channel, num_channels) ==
  Bind(IF num_channels = NoneNum THEN 1 ELSE num_channels, LAMBDA nc :
  Bind(AddLayerDtypes(dtype_per_layer, dtype_per_channel, nc), LAMBDA dt :
    IF dt.result # "ok" THEN Raise(w, dt.result)
    ELSE IF layer_name \in DOMAIN w.ds.layers THEN Raise(w, "IndexError")
    ELSE Bind(Properties_add_layer(w, layer_name, category, dt.per_layer,
                                   w.ds.data_format, nc), LAMBDA p :
           IF p.result # "ok" THEN p
           ELSE Bind(create_layer_dir(
                       [p.w EXCEPT !.ds.layers =
                          Put(@, layer_name, Layer(dt.per_channel, nc))],
                       layer_name), LAMBDA w1 :
                  Return(w1, LayerRet(w1, layer_name))))))

\* lines 80-89: the layers of the manifest are added one by one
RECURSIVE InitLayers(_, _)
InitLayers(w, todo) ==
  IF todo = {} THEN Return(w, NoRet)
  ELSE Bind(CHOOSE n \in todo : TRUE, LAMBDA layer_name :
       Bind(w.ds.props.data_layers[layer_name], LAMBDA layer :
       Bind(add_layer(w, layer.name, layer.category, layer.element_class,
                      NoneDtype, layer.num_channels), LAMBDA r :
         IF r.result # "ok" THEN r
         ELSE Bind(setup_mags(r.w, layer_name, layer.wkw_magnifications), LAMBDA w1 :
                InitLayers(w1, todo \ {layer_name})))))

\* cls(dataset_path) on the directory f: AbstractDataset.__init__, lines 70-89,
\* then the subclass sets its data_format (lines 308-311, 360-363, 420-423)
DatasetInit(f, data_format) ==
  IF ~(f.kind = "dir" /\ f.hasManifest)
  THEN Raise([fs |-> f, ds |-> ClosedDs], "DatasetNotFoundError")
  ELSE Bind(FromJson(f.manifest), LAMBDA props :
       Bind([fs |-> f,
             ds |-> [open |-> TRUE, layers |-> EmptyMap, props |-> props,
                     data_format |-> "abstract"]], LAMBDA w0 :
       Bind(InitLayers(w0, DOMAIN props.data_layers), LAMBDA r :
         IF r.result # "ok" THEN r
         ELSE Return([r.w EXCEPT !.ds.data_format = data_format], NoRet))))

\* the caller opens the dataset directory: it holds the new object when the
\* constructor returns, and keeps what it held when the constructor raises
open(w, data_format) ==
  Bind(DatasetInit(w.fs, data_format), LAMBDA r :
    IF r.result = "ok" THEN r ELSE Raise([w EXCEPT !.fs = r.w.fs], r.result))

\* create that does not look into an existing directory
create_mut_no_listdir_check(w, scale, oserror) ==
  IF w.fs.kind = "file" THEN Raise(w, "AssertionError")
  ELSE IF oserror = "makedirs" THEN Raise(w, "OSError")
  ELSE IF oserror = "export" THEN Raise([w EXCEPT !.fs.kind = "dir"], "OSError")
  ELSE open([w EXCEPT !.fs.kind = "dir", !.fs.hasManifest = TRUE,
                      !.fs.manifest = ToJson(EmptyProperties(scale))], "wkw")

\* create_with_properties, lines 91-113; oserror says where the filesystem
\* refuses ("none", "makedirs", "export")
create_with_properties(w, properties, data_format, oserror) ==
  IF w.fs.kind = "file" THEN Raise(w, "AssertionError")
  ELSE IF w.fs.kind = "dir" /\ ListDirNonEmpty(w.fs) THEN Raise(w, "AssertionError")
  ELSE IF oserror = "makedirs" THEN Raise(w, "OSError")
  ELSE IF oserror = "export" THEN Raise([w EXCEPT !.fs.kind = "dir"], "OSError")
  ELSE open([w EXCEPT !.fs.kind = "dir", !.fs.hasManifest = TRUE,
                      !.fs.manifest = ToJson(properties)], data_format)

\* WKDataset.create, lines 289-293
create(w, scale, oserror) ==
  create_with_properties(w, EmptyProperties(scale), "wkw", oserror)

\* os.path.exists(join(dataset_path, Properties.FILE_NAME))
ManifestExists(f) == f.kind = "dir" /\ f.hasManifest

\* WKDataset.get_or_create, lines 295-306; when the assertion fails the
\* caller does not get the opened object
get_or_create(w, scale, oserror) ==
  IF ManifestExists(w.fs)
  THEN Bind(open(w, "wkw"), LAMBDA r :
         IF r.result # "ok" THEN r
         ELSE IF r.w.ds.props.scale # scale
         THEN Raise([w EXCEPT !.fs = r.w.fs], "AssertionError")
         ELSE r)
  ELSE create(w, scale, oserror)

get_layer(w, layer_name) ==
  IF layer_name \notin DOMAIN w.ds.layers THEN Raise(w, "IndexError")
  ELSE Return(w, LayerRet(w, layer_name))

get_or_add_layer(w, layer_name, category, dtype_per_layer, dtype_per_channel, num_channels) ==
  IF layer_name \in DOMAIN w.ds.layers
  THEN IF layer_name \notin DOMAIN w.ds.props.data_layers THEN Raise(w, "KeyError")
       ELSE IF w.ds.props.data_layers[layer_name].category # category
       THEN Raise(w, "AssertionError")
       ELSE Bind(dtype_per_layer_to_dtype_per_channel(dtype_per_layer, num_channels),
                 LAMBDA pc :
              IF pc = TypeErrorDtype THEN Raise(w, "TypeError")
              ELSE IF ~(dtype_per_layer = NoneDtype
                        \/ w.ds.layers[layer_name].dtype_per_channel = pc)
              THEN Raise(w, "AssertionError")
              ELSE IF ~(num_channels = NoneNum
                        \/ w.ds.layers[layer_name].num_channels = num_channels)
              THEN Raise(w, "AssertionError")
              ELSE Return(w, LayerRet(w, layer_name)))
  ELSE add_layer(w, layer_name, category, dtype_per_layer, dtype_per_channel, num_channels)

\* shutil.rmtree(join(self.path, layer_name)): refuses a symbolic link
rmtree(w, layer_name) ==
  IF w.fs.entries[layer_name] = "absent" THEN Raise(w, "FileNotFoundError")
  ELSE IF w.fs.entries[layer_name] = "link" THEN Raise(w, "OSError")
  ELSE Return([w EXCEPT !.fs.entries[layer_name] = "absent"], NoRet)

\* delete_layer that leaves the Layer object in self.layers
delete_layer_mut_keeps_layer(w, layer_name) ==
  IF layer_name \notin DOMAIN w.ds.layers THEN Raise(w, "IndexError")
  ELSE Bind(Properties_delete_layer(w, layer_name), LAMBDA w1 :
         rmtree(w1, layer_name))

delete_layer(w, layer_name) ==
  IF layer_name \notin DOMAIN w.ds.layers THEN Raise(w, "IndexError")
  ELSE Bind(Properties_delete_layer(
              [w EXCEPT !.ds.layers = Del(@, layer_name)], layer_name), LAMBDA w1 :
         rmtree(w1, layer_name))

-----------------------------------------------------------------------------
(* TiffDataset and TiledTiffDataset, Dataset.py lines 326-443 *)

\* bound on the length of the patterns tried
MaxPatternLen == 3

\* the default patterns "{zzzzz}.tif" and "{xxxxx}/{yyyyy}/{zzzzz}.tif"
DefaultTiffPattern == <<"{", "z", "z", "z", "z", "z", "}", ".", "t", "i", "f">>
DefaultTiledTiffPattern ==
  <<"{", "x", "x", "x", "x", "x", "}", "/", "{", "y", "y", "y", "y", "y", "}", "/",
    "{", "z", "z", "z", "z", "z", "}", ".", "t", "i", "f">>

\* the patterns passed to create: the defaults, "abc", "{zzz" and every
\* string of braces up to the bound
Patterns ==
  {DefaultTiffPattern, DefaultTiledTiffPattern, <<"a", "b", "c">>,
   <<"{", "z", "z", "z">>}
  \cup UNION {[1..n -> {"{", "}"}] : n \in 0..MaxPatternLen}

\* the patterns passed to get_or_create: none, valid ones, an invalid one
GetOrCreatePatterns ==
  {NonePattern, DefaultTiffPattern, <<"{", "}">>, <<"{", "z">>}

TileSizes == {<<32, 32>>, <<64, 64>>}

\* pattern.count(c)
CountChar(pattern, c) == Cardinality({i \in DOMAIN pattern : pattern[i] = c})

\* validate_pattern that only asks for one '{' and one '}'
validate_pattern_mut_no_balance_check(pattern) ==
  CountChar(pattern, "{") > 0 /\ CountChar(pattern, "}") > 0

\* validate_pattern, lines 435-443: TRUE when neither assert fails
validate_pattern(pattern) ==
  /\ CountChar(pattern, "{") > 0 /\ CountChar(pattern, "}") > 0
  /\ CountChar(pattern, "{") = CountChar(pattern, "}")

\* TiffDataset.create, lines 327-338
TiffDataset_create(w, scale, pattern, oserror) ==
  IF ~validate_pattern(pattern) THEN Raise(w, "AssertionError")
  ELSE create_with_properties(w, TiffProperties(scale, pattern, NoneTile),
                              "tiff", oserror)

\* TiledTiffDataset.create, lines 379-392
TiledTiffDataset_create(w, scale, tile_size, pattern, oserror) ==
  IF ~validate_pattern(pattern) THEN Raise(w, "AssertionError")
  ELSE create_with_properties(w, TiffProperties(scale, pattern, tile_size),
                              "tiled_tiff", oserror)

\* TiffDataset.get_or_create, lines 340-358
TiffDataset_get_or_create(w, scale, pattern, oserror) ==
  IF ManifestExists(w.fs)
  THEN Bind(open(w, "tiff"), LAMBDA r :
         IF r.result # "ok" THEN r
         ELSE IF r.w.ds.props.scale # scale
         THEN Raise([w EXCEPT !.fs = r.w.fs], "AssertionError")
         ELSE IF pattern # NonePattern /\ r.w.ds.props.pattern # pattern
         THEN Raise([w EXCEPT !.fs = r.w.fs], "AssertionError")
         ELSE r)
  ELSE IF pattern = NonePattern
  THEN TiffDataset_create(w, scale, DefaultTiffPattern, oserror)
  ELSE TiffDataset_create(w, scale, pattern, oserror)

\* TiledTiffDataset.get_or_create, lines 394-415; tuple(None) raises TypeError
TiledTiffDataset_get_or_create(w, scale, tile_size, pattern, oserror) ==
  IF ManifestExists(w.fs)
  THEN Bind(open(w, "tiled_tiff"), LAMBDA r :
         IF r.result # "ok" THEN r
         ELSE IF r.w.ds.props.scale # scale
         THEN Raise([w EXCEPT !.fs = r.w.fs], "AssertionError")
         ELSE IF r.w.ds.props.tile_size = NoneTile
         THEN Raise([w EXCEPT !.fs = r.w.fs], "TypeError")
         ELSE IF r.w.ds.props.tile_size # tile_size
         THEN Raise([w EXCEPT !.fs = r.w.fs], "AssertionError")
         ELSE IF pattern # NonePattern /\ r.w.ds.props.pattern # pattern
         THEN Raise([w EXCEPT !.fs = r.w.fs], "AssertionError")
         ELSE r)
  ELSE IF pattern = NonePattern
  THEN TiledTiffDataset_create(w, scale, tile_size, DefaultTiledTiffPattern, oserror)
  ELSE TiledTiffDataset_create(w, scale, tile_size, pattern, oserror)

-----------------------------------------------------------------------------
(* Layer directories of other datasets, the arguments of add_symlink_layer *)

\* "ext" is a dataset whose manifest lists the layer "color" with two
\* resolutions, "void" is a dataset without layers, "raw" is a directory
\* that holds no manifest
ForeignPaths ==
  {[parent |-> "ext", name |-> "color"],
   [parent |-> "void", name |-> "color"],
   [parent |-> "raw", name |-> "color"]}

basename(path) == path.name
dirname(path) == path.parent

EmptyDir ==
  [kind |-> "dir", junk |-> FALSE, hasManifest |-> FALSE,
   manifest |-> ToJson(EmptyProperties(1)),
   entries |-> [n \in Names |-> "absent"]]

ForeignFs(parent) ==
  IF parent = "ext"
  THEN [EmptyDir EXCEPT
          !.hasManifest = TRUE,
          !.manifest = ToJson([EmptyProperties(1) EXCEPT
                               !.data_layers = Put(EmptyMap, "color",
                                 LayerProperties("color", "color", Uint(8), "wkw", 1,
                                                 {"1", "2"}))]),
          !.entries["color"] = "dir"]
  ELSE IF parent = "void"
  THEN [EmptyDir EXCEPT !.hasManifest = TRUE]
  ELSE [EmptyDir EXCEPT !.entries["color"] = "dir"]

add_symlink_layer(w, foreign_layer_path) ==
  Bind(basename(foreign_layer_path), LAMBDA layer_name :
    IF layer_name \in DOMAIN w.ds.layers THEN Raise(w, "IndexError")
    ELSE IF w.fs.entries[layer_name] # "absent" THEN Raise(w, "FileExistsError")
    ELSE Bind([w EXCEPT !.fs.entries[layer_name] = "link"], LAMBDA w1 :
         Bind(DatasetInit(ForeignFs(dirname(foreign_layer_path)),
                          w.ds.data_format), LAMBDA f :
           IF f.result # "ok" THEN Raise(w1, f.result)
           ELSE IF layer_name \notin DOMAIN f.w.ds.props.data_layers
           THEN Raise(w1, "KeyError")
           ELSE Bind(f.w.ds.props.data_layers[layer_name], LAMBDA lp :
                Bind(ExportAsJson(
                       [w1 EXCEPT !.ds.props.data_layers = Put(@, layer_name, lp)]),
                     LAMBDA w2 :
                Bind(dtype_per_layer_to_dtype_per_channel(
                       lp.element_class, lp.num_channels), LAMBDA pc :
                  IF pc = TypeErrorDtype THEN Raise(w2, "TypeError")
                  ELSE Bind(setup_mags(
                              create_layer_dir(
                                [w2 EXCEPT !.ds.layers =
                                   Put(@, layer_name, Layer(pc, lp.num_channels))],
                                layer_name),
                              layer_name, lp.wkw_magnifications), LAMBDA w4 :
                         Return(w4, LayerRet(w4, layer_name)))))))))

-----------------------------------------------------------------------------
(* The tiff export, export_wkw_as_tiff.py lines 68-147 *)

\* bound on the side lengths of the exported bounding box
MaxSize == 3

\* "w" stands for any axis that is not x, y or z
Axes == {"x", "y", "z", "w"}

\* the bounding boxes callers pass: {"topleft": [..], "size": [..]}
BBoxes ==
  {[topleft |-> t, size |-> s] :
     t \in {<<0, 0, 0>>, <<1, 0, 2>>},
     s \in {<<1, 1, 1>>, <<2, 1, 1>>, <<1, 2, 1>>, <<1, 1, 2>>, <<2, 2, 2>>,
            <<MaxSize, 1, 1>>, <<1, MaxSize, 1>>, <<1, 1, MaxSize>>}}

\* "process": every job works on a pickled copy of its arguments; "thread":
\* the jobs run in the caller's process and receive the caller's bbox object
\* (an executor that runs them one after the other is one of its schedules)
Executors == {"process", "thread"}

NoBox == [topleft |-> <<0, 0, 0>>, size |-> <<0, 0, 0>>]
NoName == [name |-> "", topleft |-> <<0, 0, 0>>, size |-> <<0, 0, 0>>]

\* lines 130-135, as a position in a tuple (the first one is 1)
axis_index(axis) == IF axis = "x" THEN 1 ELSE IF axis = "y" THEN 2 ELSE 3

\* the file name, by its fields: both groups of numbers come from
\* bbox["topleft"]
wkw_name_and_bbox_to_tiff_name(name, bbox) ==
  [name |-> name, topleft |-> bbox.topleft, size |-> bbox.topleft]

\* export_tiff_slice lines 83-90: the block of `if axis == "x"`
slice_if_x(tiff_bbox, slice_number, axis) ==
  IF axis = "x"
  THEN [topleft |-> [tiff_bbox.topleft EXCEPT ![1] = @ + slice_number],
        size |-> [tiff_bbox.size EXCEPT ![1] = 1]]
  ELSE tiff_bbox

\* export_tiff_slice lines 91-104: `if axis == "y"` and its else
slice_if_y_else(tiff_bbox, slice_number, axis) ==
  IF axis = "y"
  THEN [topleft |-> [tiff_bbox.topleft EXCEPT ![2] = @ + slice_number],
        size |-> [tiff_bbox.size EXCEPT ![2] = 1]]
  ELSE [topleft |-> [tiff_bbox.topleft EXCEPT ![3] = @ + slice_number],
        size |-> [tiff_bbox.size EXCEPT ![3] = 1]]

\* the box export_tiff_slice reads (line 111) when nothing else touches bbox
export_tiff_slice(slice_number, bbox, axis) ==
  slice_if_y_else(slice_if_x(bbox, slice_number, axis), slice_number, axis)

\* a submitted job: where it is in export_tiff_slice, its own bbox (a copy,
\* under a process executor), the file name and the box it has read
NewJob(bbox) == [pc |-> "start", bbox |-> bbox, name |-> NoName, read |-> NoBox]

\* no export_tiff_stack call yet
NoExport ==
  [pc |-> "idle", executor |-> "process", axis |-> "z", source |-> NoBox,
   bbox |-> NoBox, destination |-> "absent", jobs |-> EmptyMap, files |-> {},
   result |-> "none"]

\* the dict a job knows as tiff_bbox: the caller's object or the job's copy
JobBbox(e, i) == IF e.executor = "thread" THEN e.bbox ELSE e.jobs[i].bbox

SetJobBbox(e, i, b) ==
  IF e.executor = "thread" THEN [e EXCEPT !.bbox = b] ELSE [e EXCEPT !.jobs[i].bbox = b]

\* export_tiff_stack lines 125-147: the destination directory exists, one job
\* per slice is handed to the executor; nothing is raised for any axis
export_tiff_stack(bbox, axis, executor) ==
  [pc |-> "running", executor |-> executor, axis |-> axis, source |-> bbox,
   bbox |-> bbox, destination |-> "dir",
   jobs |-> [slice_number \in 0..(bbox.size[axis_index(axis)] - 1) |->
               NewJob(IF executor = "thread" THEN NoBox ELSE bbox)],
   files |-> {}, result |-> "none"]

\* no dtype conversion yet
NoConv ==
  [fn |-> "none", dtype |-> NoneDtype, num_channels |-> NoneNum,
   mid |-> NoneDtype, out |-> NoneDtype]

-----------------------------------------------------------------------------
(* The state machine: one call at a time on one dataset directory *)

W == [fs |-> fs, ds |-> ds]

NoPath == [parent |-> "", name |-> ""]

NoCall ==
  [op |-> "none", name |-> "", category |-> "", dtype_per_layer |-> NoneDtype,
   dtype_per_channel |-> NoneDtype, num_channels |-> NoneNum, path |-> NoPath,
   scale |-> 0, oserror |-> "none", result |-> "ok", ret |-> NoRet]

Ops ==
  {"none", "create", "get_or_create", "open", "add_layer", "get_or_add_layer",
   "get_layer", "delete_layer", "add_symlink_layer"}

\* the call returns (or raises): its effects, its outcome and the state before it
Finish(call, outcome) ==
  \E r \in {outcome} :
    /\ fs' = r.w.fs
    /\ ds' = r.w.ds
    /\ last' = [call EXCEPT !.result = r.result, !.ret = r.ret]
    /\ pre' = W
    /\ UNCHANGED <<export, conv>>

\* what may be at the dataset path before the first call: nothing, a file, an
\* empty directory, a directory with foreign content, a dataset without layers
InitialDirs ==
  {[EmptyDir EXCEPT !.kind = "absent"], [EmptyDir EXCEPT !.kind = "file"],
   EmptyDir, [EmptyDir EXCEPT !.junk = TRUE]}
  \cup {[EmptyDir EXCEPT !.hasManifest = TRUE, !.manifest = ToJson(EmptyProperties(sc))]
        : sc \in Scales}

Init ==
  /\ fs \in InitialDirs
  /\ ds = ClosedDs
  /\ last = NoCall
  /\ pre = [fs |-> fs, ds |-> ds]
  /\ export = NoExport
  /\ conv = NoConv

Create ==
  /\ last.op \in Ops
  /\ \E scale \in Scales, oserror \in {"none", "makedirs", "export"} :
       Finish([NoCall EXCEPT !.op = "create", !.scale = scale, !.oserror = oserror],
              create(W, scale, oserror))

GetOrCreate ==
  /\ last.op \in Ops
  /\ \E scale \in Scales, oserror \in {"none", "makedirs", "export"} :
       Finish([NoCall EXCEPT !.op = "get_or_create", !.scale = scale,
                             !.oserror = oserror],
              get_or_create(W, scale, oserror))

Open ==
  /\ last.op \in Ops
  /\ Finish([NoCall EXCEPT !.op = "open"], open(W, "wkw"))

AddLayer ==
  /\ ds.open
  /\ \E a \in LayerArgs :
       Finish([NoCall EXCEPT !.op = "add_layer", !.name = a[1], !.category = a[2],
                             !.dtype_per_layer = a[3][1],
                             !.dtype_per_channel = a[3][2],
                             !.num_channels = a[4]],
              add_layer(W, a[1], a[2], a[3][1], a[3][2], a[4]))

GetOrAddLayer ==
  /\ ds.open
  /\ \E a \in LayerArgs :
       Finish([NoCall EXCEPT !.op = "get_or_add_layer", !.name = a[1], !.category = a[2],
                             !.dtype_per_layer = a[3][1],
                             !.dtype_per_channel = a[3][2],
                             !.num_channels = a[4]],
              get_or_add_layer(W, a[1], a[2], a[3][1], a[3][2], a[4]))

GetLayer ==
  /\ ds.open
  /\ \E n \in Names :
       Finish([NoCall EXCEPT !.op = "get_layer", !.name = n], get_layer(W, n))

DeleteLayer ==
  /\ ds.open
  /\ \E n \in Names :
       Finish([NoCall EXCEPT !.op = "delete_layer", !.name = n], delete_layer(W, n))

AddSymlinkLayer ==
  /\ ds.open
  /\ \E p \in ForeignPaths :
       Finish([NoCall EXCEPT !.op = "add_symlink_layer", !.path = p,
                             !.name = basename(p)],
              add_symlink_layer(W, p))

Next ==
  \/ Create
  \/ GetOrCreate
  \/ Open
  \/ AddLayer
  \/ GetOrAddLayer
  \/ GetLayer
  \/ DeleteLayer
  \/ AddSymlinkLayer

Spec == Init /\ [][Next]_vars

-----------------------------------------------------------------------------
(* The export: one export_tiff_stack call, its slice jobs step by step *)

DatasetIdle ==
  /\ fs = EmptyDir
  /\ ds = ClosedDs
  /\ last = NoCall
  /\ pre = [fs |-> fs, ds |-> ds]

ExportInit ==
  /\ DatasetIdle
  /\ export = NoExport
  /\ conv = NoConv

ExportTiffStack ==
  /\ export.pc = "idle"
  /\ \E bbox \in BBoxes, axis \in Axes, executor \in Executors :
       export' = export_tiff_stack(bbox, axis, executor)
  /\ UNCHANGED <<fs, ds, last, pre, conv>>

\* lines 80-90 of job i
SliceIfX ==
  /\ export.pc = "running"
  /\ \E i \in DOMAIN export.jobs :
       /\ export.jobs[i].pc = "start"
       /\ export' = [SetJobBbox(export, i,
                       slice_if_x(JobBbox(export, i), i, export.axis))
                     EXCEPT !.jobs[i].pc = "if_y"]
  /\ UNCHANGED <<fs, ds, last, pre, conv>>

\* lines 91-104 of job i
SliceIfYElse ==
  /\ export.pc = "running"
  /\ \E i \in DOMAIN export.jobs :
       /\ export.jobs[i].pc = "if_y"
       /\ export' = [SetJobBbox(export, i,
                       slice_if_y_else(JobBbox(export, i), i, export.axis))
                     EXCEPT !.jobs[i].pc = "name"]
  /\ UNCHANGED <<fs, ds, last, pre, conv>>

\* lines 106-108 of job i
SliceName ==
  /\ export.pc = "running"
  /\ \E i \in DOMAIN export.jobs :
       /\ export.jobs[i].pc = "name"
       /\ export' = [export EXCEPT
                       !.jobs[i].name =
                          wkw_name_and_bbox_to_tiff_name("data", JobBbox(export, i)),
                       !.jobs[i].pc = "read"]
  /\ UNCHANGED <<fs, ds, last, pre, conv>>

\* lines 110-111 of job i
SliceRead ==
  /\ export.pc = "running"
  /\ \E i \in DOMAIN export.jobs :
       /\ export.jobs[i].pc = "read"
       /\ export' = [export EXCEPT !.jobs[i].read = JobBbox(export, i),
                                   !.jobs[i].pc = "save"]
  /\ UNCHANGED <<fs, ds, last, pre, conv>>

\* lines 112-119 of job i
SliceSave ==
  /\ export.pc = "running"
  /\ \E i \in DOMAIN export.jobs :
       /\ export.jobs[i].pc = "save"
       /\ export' = [export EXCEPT !.files = @ \cup {export.jobs[i].name},
                                   !.jobs[i].pc = "done"]
  /\ UNCHANGED <<fs, ds, last, pre, conv>>

\* the block of job i cannot be read (line 111) or its image cannot be
\* written (line 119): the job ends with an exception
SliceFails ==
  /\ export.pc = "running"
  /\ \E i \in DOMAIN export.jobs :
       /\ export.jobs[i].pc \in {"read", "save"}
       /\ export' = [export EXCEPT !.jobs[i].pc = "failed"]
  /\ UNCHANGED <<fs, ds, last, pre, conv>>

\* lines 129-147: leaving the `with` block waits for the jobs; the iterator
\* that executor.map returned is dropped, no result is retrieved
ExportReturns ==
  /\ export.pc = "running"
  /\ \A i \in DOMAIN export.jobs : export.jobs[i].pc \in {"done", "failed"}
  /\ export' = [export EXCEPT !.pc = "returned", !.result = "ok"]
  /\ UNCHANGED <<fs, ds, last, pre, conv>>

ExportNext ==
  \/ ExportTiffStack
  \/ SliceIfX
  \/ SliceIfYElse
  \/ SliceName
  \/ SliceRead
  \/ SliceSave
  \/ SliceFails
  \/ ExportReturns

ExportSpec == ExportInit /\ [][ExportNext]_vars

-----------------------------------------------------------------------------
(* The tiff variants: create and get_or_create calls on one dataset path,  *)
(* on a filesystem that refuses nothing                                    *)

TiffNoCall ==
  [op |-> "none", scale |-> 0, tile_size |-> NoneTile, pattern |-> NonePattern,
   oserror |-> "none", result |-> "ok", ret |-> NoRet]

\* what may be at the dataset path before the first call: nothing, a file, an
\* empty directory, a directory with foreign content
TiffInit ==
  /\ fs \in {[EmptyDir EXCEPT !.kind = "absent"], [EmptyDir EXCEPT !.kind = "file"],
             EmptyDir, [EmptyDir EXCEPT !.junk = TRUE]}
  /\ ds = ClosedDs
  /\ last = TiffNoCall
  /\ pre = [fs |-> fs, ds |-> ds]
  /\ export = NoExport
  /\ conv = NoConv

TiffCreate ==
  /\ last.result \in STRING
  /\ \E scale \in Scales, pattern \in Patterns :
       Finish([TiffNoCall EXCEPT !.op = "TiffDataset.create", !.scale = scale,
                                 !.pattern = pattern],
              TiffDataset_create(W, scale, pattern, "none"))

TiledTiffCreate ==
  /\ last.result \in STRING
  /\ \E scale \in Scales, tile_size \in TileSizes, pattern \in Patterns :
       Finish([TiffNoCall EXCEPT !.op = "TiledTiffDataset.create", !.scale = scale,
                                 !.tile_size = tile_size, !.pattern = pattern],
              TiledTiffDataset_create(W, scale, tile_size, pattern, "none"))

TiffGetOrCreate ==
  /\ last.result \in STRING
  /\ \E scale \in Scales, pattern \in GetOrCreatePatterns :
       Finish([TiffNoCall EXCEPT !.op = "TiffDataset.get_or_create",
                                 !.scale = scale, !.pattern = pattern],
              TiffDataset_get_or_create(W, scale, pattern, "none"))

TiledTiffGetOrCreate ==
  /\ last.result \in STRING
  /\ \E scale \in Scales, tile_size \in TileSizes, pattern \in GetOrCreatePatterns :
       Finish([TiffNoCall EXCEPT !.op = "TiledTiffDataset.get_or_create",
                                 !.scale = scale, !.tile_size = tile_size,
                                 !.pattern = pattern],
              TiledTiffDataset_get_or_create(W, scale, tile_size, pattern, "none"))

TiffNext ==
  \/ TiffCreate
  \/ TiledTiffCreate
  \/ TiffGetOrCreate
  \/ TiledTiffGetOrCreate

TiffSpec == TiffInit /\ [][TiffNext]_vars

-----------------------------------------------------------------------------
(* The dtype conversions applied to given arguments *)

\* bound on the number of channels converted with
MaxConvChannels == 4

\* the dtypes converted: kinds and widths numpy knows, and widths it does not
ConvDtypes ==
  {[kind |-> k, bits |-> b] : k \in {"uint", "int", "float"},
                              b \in {8, 16, 17, 24, 32, 64}}

DtypeInit ==
  /\ DatasetIdle
  /\ export = NoExport
  /\ conv \in {[NoConv EXCEPT !.dtype = d, !.num_channels = n] :
                 d \in ConvDtypes, n \in 1..MaxConvChannels}

PerLayerToPerChannel ==
  /\ conv.fn = "none"
  /\ conv' = [conv EXCEPT
                !.fn = "dtype_per_layer_to_dtype_per_channel",
                !.out = dtype_per_layer_to_dtype_per_channel(conv.dtype,
                                                             conv.num_channels)]
  /\ UNCHANGED <<fs, ds, last, pre, export>>

PerChannelToPerLayer ==
  /\ conv.fn = "none"
  /\ conv' = [conv EXCEPT
                !.fn = "dtype_per_channel_to_dtype_per_layer",
                !.out = dtype_per_channel_to_dtype_per_layer(conv.dtype,
                                                             conv.num_channels)]
  /\ UNCHANGED <<fs, ds, last, pre, export>>

\* the per-layer dtype just computed is converted back
RoundTrip ==
  /\ conv.fn = "dtype_per_channel_to_dtype_per_layer"
  /\ conv.out # TypeErrorDtype
  /\ conv' = [conv EXCEPT
                !.fn = "round_trip",
                !.mid = conv.out,
                !.out = dtype_per_layer_to_dtype_per_channel(conv.out,
                                                             conv.num_channels)]
  /\ UNCHANGED <<fs, ds, last, pre, export>>

DtypeNext ==
  \/ PerLayerToPerChannel
  \/ PerChannelToPerLayer
  \/ RoundTrip

DtypeSpec == DtypeInit /\ [][DtypeNext]_vars

-----------------------------------------------------------------------------
(* Claims *)

LayerOps == {"add_layer", "get_or_add_layer", "delete_layer", "add_symlink_layer"}

Requested == [dtype_per_layer |-> last.dtype_per_layer,
              dtype_per_channel |-> last.dtype_per_channel,
              num_channels |-> last.num_channels]

ManifestEntries(json, layer_name) == {e \in json.dataLayers : e.name = layer_name}

\* C1: whenever add_layer, get_or_add_layer, delete_layer or add_symlink_layer
\* has returned or raised, the layer names of dataset.layers are the layer
\* names of dataset.properties.data_layers.
C1_LayersMatchProperties ==
  last.op \in LayerOps => DOMAIN ds.layers = DOMAIN ds.props.data_layers

\* a delete_layer that raised after it had changed the registry, with another
\* layer still registered
C1_Witness ==
  /\ last.op = "delete_layer"
  /\ last.result = "OSError"
  /\ DOMAIN pre.ds.layers = Names
  /\ DOMAIN ds.layers = Names \ {last.name}

\* C2: after add_layer, delete_layer or add_symlink_layer (and get_or_add_layer,
\* which adds through add_layer) the manifest on disk lists exactly the layers
\* of the in-memory layers map.
C2_ManifestMatchesLayers ==
  last.op \in LayerOps =>
    fs.hasManifest /\ ManifestNames(fs.manifest) = DOMAIN ds.layers

\* a delete_layer that removed one of two layers
C2_Witness ==
  /\ last.op = "delete_layer"
  /\ last.result = "ok"
  /\ DOMAIN pre.ds.layers = Names
  /\ ManifestNames(fs.manifest) = Names \ {last.name}

\* C3: delete_layer(name) of an existing layer removes it from layers, from
\* the manifest and from the dataset directory, and get_layer(name) then
\* fails with the unknown-layer error.
C3_DeleteRemovesLayer ==
  (last.op = "delete_layer" /\ last.name \in DOMAIN pre.ds.layers) =>
    /\ last.result = "ok"
    /\ last.name \notin DOMAIN ds.layers
    /\ last.name \notin ManifestNames(fs.manifest)
    /\ fs.entries[last.name] = "absent"
    /\ get_layer(W, last.name).result = "IndexError"

\* C4: a get_or_add_layer call that succeeded succeeds again with the same
\* arguments, returns the same layer and leaves one manifest entry of that name.
C4_GetOrAddIdempotent ==
  (last.op = "get_or_add_layer" /\ last.result = "ok") =>
    \A again \in {get_or_add_layer(W, last.name, last.category, last.dtype_per_layer,
                                   last.dtype_per_channel, last.num_channels)} :
      /\ again.result = "ok"
      /\ again.ret = last.ret
      /\ Cardinality(ManifestEntries(again.w.fs.manifest, last.name)) = 1

\* the request of the last call differs from the existing layer of that name
\* in category, dtype (per layer or per channel, whichever was given) or
\* number of channels
RequestMismatch ==
  \/ last.category # pre.ds.props.data_layers[last.name].category
  \/ /\ last.dtype_per_layer # NoneDtype
     /\ last.dtype_per_layer # pre.ds.props.data_layers[last.name].element_class
  \/ /\ last.dtype_per_channel # NoneDtype
     /\ last.dtype_per_channel # pre.ds.layers[last.name].dtype_per_channel
  \/ /\ last.num_channels # NoneNum
     /\ last.num_channels # pre.ds.layers[last.name].num_channels

\* C5: get_or_add_layer on an existing layer fails with the config-mismatch
\* error (AssertionError) whenever the request differs from the layer, and
\* returns the existing layer only when nothing differs.
C5_GetOrAddMismatchFails ==
  (last.op = "get_or_add_layer" /\ last.name \in DOMAIN pre.ds.layers) =>
    /\ RequestMismatch => last.result = "AssertionError"
    /\ last.result = "ok" =>
         /\ ~RequestMismatch
         /\ last.ret = [name |-> last.name, layer |-> pre.ds.layers[last.name]]

\* C6 as stated: add_layer with an existing name fails with the
\* duplicate-layer error (IndexError) and changes nothing.
C6_DuplicateIsIndexError ==
  (last.op = "add_layer" /\ last.name \in DOMAIN pre.ds.layers) =>
    last.result = "IndexError" /\ W = pre

\* C6 amended: add_layer with an existing name fails and changes nothing in
\* layers, properties, manifest and directories; the error is the
\* duplicate-layer error unless the dtype arguments are rejected first (both
\* given: AttributeError; not convertible: TypeError).
C6_DuplicateFailsUnchanged ==
  (last.op = "add_layer" /\ last.name \in DOMAIN pre.ds.layers) =>
    /\ W = pre
    /\ last.result =
         IF last.dtype_per_layer # NoneDtype /\ last.dtype_per_channel # NoneDtype
         THEN "AttributeError"
         ELSE IF /\ last.dtype_per_layer # NoneDtype
                 /\ last.dtype_per_layer.bits
                      \div (IF last.num_channels = NoneNum THEN 1 ELSE last.num_channels)
                    \notin NumpyBits
         THEN "TypeError"
         ELSE "IndexError"

\* a duplicate add_layer with acceptable dtype arguments
C6_Witness ==
  /\ last.op = "add_layer"
  /\ last.name \in DOMAIN pre.ds.layers
  /\ last.result = "IndexError"
  /\ DOMAIN ds.layers = Names

\* C7: after a successful add_layer(name, category, dtype, num_channels),
\* get_layer(name) returns a layer with the requested number of channels
\* (1 when none was given) whose per-channel dtype is the requested one: the
\* given dtype_per_channel, or the channel share of the given dtype_per_layer,
\* or uint8 when no dtype was given; its category is the requested one; and
\* the manifest has exactly one entry of that name, with the same category,
\* number of channels and per-layer dtype (per-channel width times channels).
C7_AddThenGet ==
  (last.op = "add_layer" /\ last.result = "ok") =>
    \A got \in {get_layer(W, last.name)} :
    \A nc \in {IF last.num_channels = NoneNum THEN 1 ELSE last.num_channels} :
    \A per_layer_bits \in
         {IF last.dtype_per_layer # NoneDtype THEN last.dtype_per_layer.bits
          ELSE IF last.dtype_per_channel # NoneDtype THEN last.dtype_per_channel.bits * nc
          ELSE DEFAULT_BIT_DEPTH * nc} :
      /\ got.result = "ok"
      /\ ds.props.data_layers[last.name].category = last.category
      /\ got.ret.layer.num_channels = nc
      /\ got.ret.layer.dtype_per_channel.kind = "uint"
      /\ got.ret.layer.dtype_per_channel.bits * nc = per_layer_bits
      /\ \E e \in fs.manifest.dataLayers :
           /\ ManifestEntries(fs.manifest, last.name) = {e}
           /\ e.category = last.category
           /\ e.numChannels = nc
           /\ e.elementClass = Uint(per_layer_bits)

\* C8: opening a dataset directory succeeds, gives a Dataset with the layers
\* of the manifest, equal (category, dtype, channels, resolutions) to the
\* layers of the Dataset that wrote it, and leaves the manifest as it was.
C8_OpenReconstructs ==
  (last.op = "open" /\ pre.fs.kind = "dir" /\ pre.fs.hasManifest) =>
    /\ last.result = "ok"
    /\ ds.open
    /\ DOMAIN ds.layers = ManifestNames(pre.fs.manifest)
    /\ pre.ds.open =>
         /\ ds.layers = pre.ds.layers
         /\ ds.props.data_layers = pre.ds.props.data_layers
    /\ fs.manifest = pre.fs.manifest

\* the last call's path is a layer recorded in its dataset's manifest
ForeignIsLayer ==
  /\ ForeignFs(dirname(last.path)).hasManifest
  /\ basename(last.path) \in ManifestNames(ForeignFs(dirname(last.path)).manifest)

\* C9: add_symlink_layer of a foreign layer whose name is not yet a layer
\* creates the link and registers a layer whose manifest entry is the foreign
\* entry and whose resolutions are the foreign ones; with a name that is
\* already a layer it raises IndexError and creates no link and leaves the
\* manifest alone.
C9_SymlinkImports ==
  (last.op = "add_symlink_layer" /\ ForeignIsLayer) =>
    IF last.name \notin DOMAIN pre.ds.layers
    THEN /\ last.result = "ok"
         /\ fs.entries[last.name] = "link"
         /\ last.name \in DOMAIN ds.layers
         /\ \E e \in ForeignFs(dirname(last.path)).manifest.dataLayers :
              /\ e.name = last.name
              /\ ManifestEntries(fs.manifest, last.name) = {e}
              /\ ds.layers[last.name].mags = e.wkwResolutions
    ELSE /\ last.result = "IndexError"
         /\ fs = pre.fs

\* create returned an opened Dataset without layers for a written manifest
CreateSucceeded ==
  /\ last.result = "ok"
  /\ fs.kind = "dir"
  /\ fs.hasManifest
  /\ fs.manifest = ToJson(EmptyProperties(last.scale))
  /\ ds.open
  /\ ds.layers = EmptyMap
  /\ ds.props.scale = last.scale

\* C10 as stated: when the filesystem refuses nothing, create fails only for
\* a file or a non-empty directory that holds something other than a
\* manifest; otherwise it creates the directory and manifest and returns an
\* opened Dataset without layers.
C10_CreateFailsOnlyOnForeignDir ==
  (last.op = "create" /\ last.oserror = "none") =>
    IF \/ pre.fs.kind = "file"
       \/ /\ pre.fs.kind = "dir"
          /\ (pre.fs.junk \/ \E n \in Names : pre.fs.entries[n] # "absent")
    THEN last.result # "ok"
    ELSE CreateSucceeded

\* C10 amended: create fails when the path is a file or a directory with any
\* content, a manifest included (AssertionError, nothing changed), or when
\* the filesystem refuses makedirs or the manifest write (OSError); in every
\* other case (path absent or an empty directory) it creates the directory
\* if needed, writes the manifest and returns an opened Dataset without layers.
C10_CreateFailsOnAnyContent ==
  last.op = "create" =>
    IF \/ pre.fs.kind = "file"
       \/ /\ pre.fs.kind = "dir"
          /\ (pre.fs.hasManifest \/ pre.fs.junk
              \/ \E n \in Names : pre.fs.entries[n] # "absent")
    THEN last.result = "AssertionError" /\ W = pre
    ELSE IF last.oserror # "none"
    THEN last.result = "OSError" /\ ds = pre.ds /\ ~fs.hasManifest
    ELSE CreateSucceeded

\* create on a dataset directory that holds only its manifest
C10_Witness ==
  /\ last.op = "create"
  /\ last.oserror = "none"
  /\ pre.fs.kind = "dir"
  /\ pre.fs.hasManifest
  /\ ~pre.fs.junk
  /\ \A n \in Names : pre.fs.entries[n] = "absent"
  /\ last.result = "AssertionError"

\* C11: get_or_create(path, scale) opens the dataset when a manifest exists at
\* path, leaving the manifest as it was, and fails with the config-mismatch
\* error (AssertionError) when the stored scale differs from the requested
\* one; without a manifest it behaves as create; and after a get_or_create
\* that succeeded, the same call succeeds again with the same scale and layers.
C11_GetOrCreateOpensOrCreates ==
  last.op = "get_or_create" =>
    /\ IF ManifestExists(pre.fs)
       THEN /\ fs.manifest = pre.fs.manifest
            /\ IF pre.fs.manifest.scale # last.scale
               THEN last.result = "AssertionError"
               ELSE /\ last.result = "ok"
                    /\ ds.open
                    /\ ds.props.scale = last.scale
                    /\ DOMAIN ds.layers = ManifestNames(pre.fs.manifest)
       ELSE \A made \in {create(pre, last.scale, last.oserror)} :
              last.result = made.result /\ W = made.w
    /\ last.result = "ok" =>
         \A again \in {get_or_create(W, last.scale, "none")} :
           /\ again.result = "ok"
           /\ again.w.ds.props.scale = ds.props.scale
           /\ again.w.ds.layers = ds.layers

\* C12: add_layer called with both dtype_per_layer and dtype_per_channel
\* raises the ambiguous-dtype error (AttributeError), whether or not the name
\* is already a layer, and changes nothing in layers, properties, manifest
\* and directories.
C12_BothDtypesRejected ==
  (/\ last.op = "add_layer"
   /\ last.dtype_per_layer # NoneDtype
   /\ last.dtype_per_channel # NoneDtype) =>
    last.result = "AttributeError" /\ W = pre

\* add_layer with both dtypes for a name that is not a layer, on a dataset
\* that has another layer
C12_Witness ==
  /\ last.op = "add_layer"
  /\ last.dtype_per_layer # NoneDtype
  /\ last.dtype_per_channel # NoneDtype
  /\ last.name \notin DOMAIN pre.ds.layers
  /\ pre.ds.layers # EmptyMap
  /\ last.result = "AttributeError"

\* the plane of slice i of the source box along the axis: topleft moved by i
\* on that axis only, size 1 on that axis only
PlaneOf(source, axis, i) ==
  [topleft |-> [source.topleft EXCEPT ![axis_index(axis)] = @ + i],
   size |-> [source.size EXCEPT ![axis_index(axis)] = 1]]

\* C13: for an axis of x, y, z, export_tiff_stack creates the jobs
\* 0..size[axis]-1, and job i, working on its own copy of the arguments,
\* reads the plane of slice i: the source box moved by i on that axis only
\* and with only that axis's size replaced by 1.
C13_SliceJobsReadTheirPlane ==
  (/\ export.pc # "idle"
   /\ export.axis \in {"x", "y", "z"}
   /\ export.executor = "process") =>
    /\ DOMAIN export.jobs = 0..(export.source.size[axis_index(export.axis)] - 1)
    /\ \A i \in DOMAIN export.jobs :
         export.jobs[i].read # NoBox =>
           export.jobs[i].read = PlaneOf(export.source, export.axis, i)

\* C14: under every executor and every interleaving of the jobs, the box job
\* i reads and the file name it writes are those of job i run alone on the
\* original source box.
C14_JobsShareNoState ==
  export.pc # "idle" =>
    \A i \in DOMAIN export.jobs :
      /\ export.jobs[i].read # NoBox =>
           export.jobs[i].read = export_tiff_slice(i, export.source, export.axis)
      /\ export.jobs[i].name # NoName =>
           export.jobs[i].name =
             wkw_name_and_bbox_to_tiff_name(
               "data", export_tiff_slice(i, export.source, export.axis))

\* the voxels of a box
Voxels(b) ==
  {<<x, y, z>> : x \in b.topleft[1]..(b.topleft[1] + b.size[1] - 1),
                 y \in b.topleft[2]..(b.topleft[2] + b.size[2] - 1),
                 z \in b.topleft[3]..(b.topleft[3] + b.size[3] - 1)}

\* C15: when an export along x, y or z has returned and every job has run to
\* its end, the regions read by two different jobs are disjoint, their file
\* names differ, and the regions read by all jobs together are the source box.
C15_RegionsTileSource ==
  (/\ export.pc = "returned"
   /\ export.axis \in {"x", "y", "z"}
   /\ \A i \in DOMAIN export.jobs : export.jobs[i].pc = "done") =>
    /\ \A i, j \in DOMAIN export.jobs :
         i # j =>
           /\ Voxels(export.jobs[i].read) \cap Voxels(export.jobs[j].read) = {}
           /\ export.jobs[i].name # export.jobs[j].name
    /\ UNION {Voxels(export.jobs[i].read) : i \in DOMAIN export.jobs}
         = Voxels(export.source)

\* C16: export_tiff_stack with an axis other than x, y, z submits no job,
\* writes no file and ends with the invalid-axis error.
C16_AxisValidated ==
  (export.pc # "idle" /\ export.axis \notin {"x", "y", "z"}) =>
    /\ DOMAIN export.jobs = {}
    /\ export.files = {}
    /\ export.pc = "returned" => export.result \notin {"none", "ok"}

\* C17: when a slice job has failed, export_tiff_stack does not return
\* normally.
C17_FailureReachesCaller ==
  (/\ export.pc = "returned"
   /\ \E i \in DOMAIN export.jobs : export.jobs[i].pc = "failed") =>
    export.result # "ok"

\* C18: for every per-channel dtype d numpy accepts and every number of
\* channels n, converting d to the per-layer dtype for n channels and back
\* gives d.
C18_DtypeRoundTrip ==
  (conv.fn = "round_trip" /\ NpDtype(conv.dtype) = conv.dtype) =>
    conv.out = conv.dtype

\* uint8 with three channels went through the per-layer dtype uint24, which
\* numpy does not know
C18_Witness ==
  /\ conv.fn = "round_trip"
  /\ conv.dtype = Uint(8)
  /\ conv.num_channels = 3
  /\ conv.mid = Uint(24)
  /\ conv.out = Uint(8)

\* C19: dtype_per_layer_to_dtype_per_channel(d, n) returns the dtype of d's
\* kind with width(d)/n when n divides width(d) and that width is a valid
\* element width, and fails with the type-conversion error otherwise; it
\* never returns a dtype whose width times n differs from width(d).
C19_PerChannelWidthIsExact ==
  conv.fn = "dtype_per_layer_to_dtype_per_channel" =>
    /\ IF /\ conv.dtype.bits % conv.num_channels = 0
          /\ NpDtype([kind |-> conv.dtype.kind,
                      bits |-> conv.dtype.bits \div conv.num_channels])
               # TypeErrorDtype
       THEN conv.out = [kind |-> conv.dtype.kind,
                        bits |-> conv.dtype.bits \div conv.num_channels]
       ELSE conv.out = TypeErrorDtype
    /\ conv.out # TypeErrorDtype =>
         conv.out.bits * conv.num_channels = conv.dtype.bits

\* C20: validate_pattern accepts a pattern exactly when it has at least one
\* '{' and as many '{' as '}'; TiffDataset.create and TiledTiffDataset.create
\* with a rejected pattern fail and leave the path as it was, and with an
\* accepted pattern do what create_with_properties does.
C20_PatternValidatedBeforeCreate ==
  last.op \in {"TiffDataset.create", "TiledTiffDataset.create"} =>
    /\ validate_pattern(last.pattern) <=>
         /\ \E i \in DOMAIN last.pattern : last.pattern[i] = "{"
         /\ CountChar(last.pattern, "{") = CountChar(last.pattern, "}")
    /\ IF /\ \E i \in DOMAIN last.pattern : last.pattern[i] = "{"
          /\ CountChar(last.pattern, "{") = CountChar(last.pattern, "}")
       THEN \A made \in {create_with_properties(
                           pre,
                           TiffProperties(last.scale, last.pattern, last.tile_size),
                           IF last.op = "TiffDataset.create"
                           THEN "tiff" ELSE "tiled_tiff",
                           last.oserror)} :
              last.result = made.result /\ W = made.w
       ELSE last.result = "AssertionError" /\ W = pre

\* TiffDataset.create with a pattern that has both braces, but not as many
\* of one as of the other, on a path where nothing exists
C20_Witness ==
  /\ last.op = "TiffDataset.create"
  /\ last.pattern = <<"{", "{", "}">>
  /\ last.result = "AssertionError"
  /\ pre.fs.kind = "absent"
  /\ fs.kind = "absent"
  /\ ~fs.hasManifest

\* C21: when export_tiff_stack has returned, under either executor, the
\* bounding box of its caller has the topleft and size it had before the call.
C21_CallerBboxUnchanged ==
  export.pc = "returned" => export.bbox = export.source

\* C22: an add_symlink_layer call that ended in an error leaves the dataset
\* directory (no new link), layers, the in-memory properties and the on-disk
\* manifest as they were.
C22_FailedSymlinkLeavesNoTrace ==
  (last.op = "add_symlink_layer" /\ last.result # "ok") =>
    /\ fs.entries = pre.fs.entries
    /\ ds.layers = pre.ds.layers
    /\ ds.props = pre.ds.props
    /\ fs.manifest = pre.fs.manifest

====
